---- MODULE Spec2Model ----
(***************************************************************************)
(* Model of release_tool: run_release (release.py), Config (config.py) and *)
(* build_latex (latex_build.py), run against a remote repository and       *)
(* release registry that an external actor may change between the steps.   *)
(* The functions imported from release_tool.git_operations are modelled    *)
(* from the design document (sections 4.1 to 4.5).                         *)
(***************************************************************************)
EXTENDS Naturals, Sequences, FiniteSets

\* ------------------------------------------------------------------ bounds
MaxCommit == 2
MaxEmptyTag == 1

\* ------------------------------------------------------------------ inputs
\* A line of operator input is a sequence of characters; " " is whitespace.
RawTagAnswers == { <<>>, <<" ">>, <<" ", "a">>, <<"b", " ">>, <<"a", " ", "b">> }
RawTitleAnswers == { <<>>, <<" ">>, <<"t">> }
RawNotesAnswers == { <<>>, <<"n", " ">> }
BranchNames == { "main", "dev" }
TagNames == { <<"a">>, <<"b">> }
Booleans == { TRUE, FALSE }

VARIABLES
    currentBranch,   \* branch checked out in the working copy
    localHead,       \* head commit of the working copy
    remoteHead,      \* tip of the main branch on the remote
    nextCommit,      \* the next commit id that has not been used yet
    tags,            \* remote tags: set of [name, commit]
    releases,        \* remote releases, oldest first
    pc,              \* position of run_release
    exit,            \* exit code of the invocation (NoExit while it runs)
    raised,          \* the exception that ended the invocation
    outcome,         \* what the invocation printed last
    new_tag,
    release_title,
    release_notes,
    emptyAnswers,    \* empty answers to the tag prompt in this invocation
    main_branch,     \* config.main_branch
    obs              \* history of this invocation (calls made, what they returned)

envVars == << currentBranch, localHead, remoteHead, nextCommit, tags, releases >>
inputVars == << new_tag, release_title, release_notes, emptyAnswers, main_branch >>
endVars == << exit, raised, outcome >>
vars == << currentBranch, localHead, remoteHead, nextCommit, tags, releases,
           pc, exit, raised, outcome, new_tag, release_title, release_notes,
           emptyAnswers, main_branch, obs >>

NoExit == 255
MAIN_BRANCH_DEFAULT == "main"

\* ------------------------------------------------------- pure functions
IsSpace(c) == c = " "

RECURSIVE LStrip(_)
LStrip(s) == IF s # <<>> /\ IsSpace(Head(s)) THEN LStrip(Tail(s)) ELSE s

RECURSIVE RStrip(_)
RStrip(s) ==
    IF s # <<>> /\ IsSpace(s[Len(s)]) THEN RStrip(SubSeq(s, 1, Len(s) - 1)) ELSE s

\* str.strip()
Strip(s) == RStrip(LStrip(s))

\* prompt_user returning the line as typed
prompt_user_NoStrip(line) == line

\* prompt_user: the operator's line, stripped
prompt_user(line) == Strip(line)

\* ConfigResult without the check of the LaTeX directory
ConfigResult_NoLatexDirCheck(fs) ==
    IF ~fs.hasGit THEN "RuntimeError"
    ELSE IF ~fs.hasEnv THEN "FileNotFoundError"
    ELSE "none"

\* Config.__init__: the exception it raises, or "none"
ConfigResult(fs) ==
    IF ~fs.hasGit THEN "RuntimeError"
    ELSE IF ~fs.hasEnv THEN "FileNotFoundError"
    ELSE IF ~fs.hasLatexDir THEN "FileNotFoundError"
    ELSE "none"

\* MainBranch without the default of env_vars.get
MainBranch_NoDefault(fs) == fs.envMainBranch

\* config.main_branch
MainBranch(fs) == IF fs.envMainBranch = "" THEN MAIN_BRANCH_DEFAULT ELSE fs.envMainBranch

\* BuildResult with the exit status of make not checked
BuildResult_MakeUnchecked(fs) ==
    IF ~fs.hasMakefile THEN "FileNotFoundError"
    ELSE "none"

\* build_latex: the exception it raises, or "none"
BuildResult(fs) ==
    IF ~fs.hasMakefile THEN "FileNotFoundError"
    ELSE IF ~fs.makeOk THEN "RuntimeError"
    ELSE "none"

ConfigFs == [hasGit : Booleans, hasEnv : Booleans, hasLatexDir : Booleans,
             envMainBranch : {"", "main"}]
BuildFs == [hasMakefile : Booleans, makeOk : Booleans]

\* --------------------------------- git_operations (from the design, 4.1-4.5)
HandledErrors == { "GitError", "GitHubError", "RuntimeError", "FileNotFoundError" }

\* assertOnBranch
OnMainBranch(branch, expected) == branch = expected

\* assertSynced: ahead, behind and diverged all block
UpToDate(local, remote) == local = remote

ReleasesOn(rels, commit) == { i \in 1..Len(rels) : rels[i].targetCommit = commit }

\* isHeadReleased: exact-commit match
IsHeadReleased(rels, commit) == ReleasesOn(rels, commit) # {}

\* latest: the release on head when there is one, else the most recent overall
LatestRelease(rels, commit) ==
    IF IsHeadReleased(rels, commit)
    THEN rels[CHOOSE i \in ReleasesOn(rels, commit) :
                  \A j \in ReleasesOn(rels, commit) : j <= i]
    ELSE IF rels # <<>> THEN rels[Len(rels)] ELSE [tagName |-> <<>>]

TagNamesOf(tagSet) == { t.name : t \in tagSet }

Malformed(tag) == tag = <<>> \/ \E i \in 1..Len(tag) : IsSpace(tag[i])

\* Tag Validator.validate, rules in order
ValidationOutcome(tag, tagSet, local, remote) ==
    IF Malformed(tag) THEN "MalformedName"
    ELSE IF tag \in TagNamesOf(tagSet) THEN "AlreadyExists"
    ELSE IF local # remote THEN "NotOnBranchTip"
    ELSE "Valid"

\* Publish Verifier.verify against the head commit
VerificationOutcome(tag, rels, commit) ==
    IF ~\E i \in 1..Len(rels) : rels[i].tagName = tag THEN "NotFound"
    ELSE IF \E i \in 1..Len(rels) : rels[i].tagName = tag /\ rels[i].targetCommit = commit
         THEN "Confirmed"
    ELSE "Mismatch"

\* The commits a new release of `tag` can end up on: the commit of the tag when it
\* exists already, else the head of the working copy or the tip of the remote branch.
PublishTargets(tag, tagSet, local, remote) ==
    IF tag \in TagNamesOf(tagSet)
    THEN { t.commit : t \in { u \in tagSet : u.name = tag } }
    ELSE { local, remote }

WithTag(tagSet, tag, commit) ==
    IF tag \in TagNamesOf(tagSet) THEN tagSet
    ELSE tagSet \cup { [name |-> tag, commit |-> commit] }

NewRelease(tag, commit, title, notes) ==
    [tagName |-> tag, targetCommit |-> commit, name |-> title, body |-> notes]

\* Remote Release Registry.publish: what it can leave behind. It creates the tag
\* (when there is none yet) and the release; or it fails with nothing created
\* (PublishFailed); or it fails with the tag created and no release (PartialPublish).
Publish(tag, title, notes, tagSet, rels, local, remote) ==
    { [result |-> "ok",
       tags |-> WithTag(tagSet, tag, c),
       releases |-> Append(rels, NewRelease(tag, c, title, notes)),
       wrote |-> (IF tag \in TagNamesOf(tagSet) THEN {} ELSE { "tag" }) \cup { "release" },
       created |-> << NewRelease(tag, c, title, notes) >>]
        : c \in PublishTargets(tag, tagSet, local, remote) }
    \cup
    { [result |-> "PublishFailed", tags |-> tagSet, releases |-> rels,
       wrote |-> {}, created |-> <<>>] }
    \cup
    { [result |-> "PartialPublish", tags |-> WithTag(tagSet, tag, c), releases |-> rels,
       wrote |-> { "tag" }, created |-> <<>>]
        : c \in IF tag \in TagNamesOf(tagSet) THEN {}
                ELSE PublishTargets(tag, tagSet, local, remote) }

\* ------------------------------------------------------------ run_release
RunningPcs == { "config", "build", "check_branch", "check_sync", "dup_check",
                "prompt_tag", "prompt_title", "prompt_notes", "validate",
                "publish", "post_sync", "verify", "report" }

NoObs == [calls |-> <<>>, visited |-> <<"Init">>, dupFound |-> FALSE,
          valOutcome |-> "none", pubOutcome |-> "none", verOutcome |-> "none",
          headAtPublish |-> <<>>, postSync |-> <<>>, postSyncOutcome |-> "none",
          interruptedAt |-> "none", wrote |-> {}, created |-> <<>>,
          configFs |-> <<>>, buildFs |-> <<>>,
          tagLines |-> <<>>, titleLine |-> <<>>, notesLine |-> <<>>,
          validated |-> <<>>, published |-> <<>>, verified |-> <<>>]

Called(name) == [obs EXCEPT !.calls = Append(@, name)]

\* what Config() looked for on disk
Probed(fs) == << [hasGit |-> fs.hasGit, hasEnv |-> fs.hasEnv,
                  hasLatexDir |-> fs.hasLatexDir] >>

\* ExitCodeFor with a code of its own for the handled errors
ExitCodeFor_HandledTwo(exc) ==
    IF exc \in HandledErrors THEN 2
    ELSE IF exc = "KeyboardInterrupt" THEN 1
    ELSE 1

\* ExitCodeFor with a cancelled run counted as a success
ExitCodeFor_CancelZero(exc) ==
    IF exc \in HandledErrors THEN 1
    ELSE IF exc = "KeyboardInterrupt" THEN 0
    ELSE 1

\* the except clauses: the exit code for an exception
ExitCodeFor(exc) ==
    IF exc \in HandledErrors THEN 1
    ELSE IF exc = "KeyboardInterrupt" THEN 1
    ELSE 1

\* OutcomeFor with the exception's message dropped
OutcomeFor_NoMessage(exc, msg) ==
    IF exc \in HandledErrors THEN [kind |-> "Error", text |-> "", tag |-> <<>>]
    ELSE IF exc = "KeyboardInterrupt"
         THEN [kind |-> "Release cancelled by user", text |-> "", tag |-> <<>>]
    ELSE [kind |-> "Unexpected error", text |-> "", tag |-> <<>>]

\* the except clauses: what is printed
OutcomeFor(exc, msg) ==
    IF exc \in HandledErrors THEN [kind |-> "Error", text |-> msg, tag |-> <<>>]
    ELSE IF exc = "KeyboardInterrupt"
         THEN [kind |-> "Release cancelled by user", text |-> "", tag |-> <<>>]
    ELSE [kind |-> "Unexpected error", text |-> msg, tag |-> <<>>]

NoOutcome == [kind |-> "", text |-> "", tag |-> <<>>]

\* an exception raised at a step reaches the except clauses and the run returns
Raise(exc, msg, o) ==
    /\ pc' = "done"
    /\ exit' = ExitCodeFor(exc)
    /\ raised' = exc
    /\ outcome' = OutcomeFor(exc, msg)
    /\ obs' = [o EXCEPT !.visited = Append(@, "Failed")]

\* a step that returns normally
Goto(next, o) ==
    /\ pc' = next
    /\ obs' = o
    /\ UNCHANGED endVars

Reached(state, o) == [o EXCEPT !.visited = Append(@, state)]

\* the operator starts the tool
StartRun ==
    /\ pc = "idle"
    /\ pc' = "config"
    /\ UNCHANGED << envVars, inputVars, endVars, obs >>

\* the process ends with the exit code; nothing of the run is kept
ProcessExit ==
    /\ pc = "done"
    /\ pc' = "idle"
    /\ exit' = NoExit
    /\ raised' = "none"
    /\ outcome' = NoOutcome
    /\ new_tag' = <<>>
    /\ release_title' = <<>>
    /\ release_notes' = <<>>
    /\ emptyAnswers' = 0
    /\ main_branch' = ""
    /\ obs' = NoObs
    /\ UNCHANGED envVars

\* config = Config()
LoadConfig ==
    /\ pc = "config"
    /\ \E fs \in ConfigFs :
         LET o == [Called("Config") EXCEPT !.configFs = Probed(fs)]
         IN  IF ConfigResult(fs) = "none"
             THEN /\ main_branch' = MainBranch(fs)
                  /\ Goto("build", o)
             ELSE /\ Raise(ConfigResult(fs), "config", o)
                  /\ UNCHANGED main_branch
    /\ UNCHANGED << envVars, new_tag, release_title, release_notes, emptyAnswers >>

\* build_latex(config.latex_dir)
BuildLatex ==
    /\ pc = "build"
    /\ \E fs \in BuildFs :
         LET o == [Called("build_latex") EXCEPT !.buildFs = << fs >>]
         IN  IF BuildResult(fs) = "none"
             THEN Goto("check_branch", o)
             ELSE Raise(BuildResult(fs), "build", o)
    /\ UNCHANGED << envVars, inputVars >>

\* check_on_main_branch(config.project_root, config.main_branch)
CheckOnMainBranch ==
    /\ pc = "check_branch"
    /\ \E readable \in Booleans :
         IF readable /\ OnMainBranch(currentBranch, main_branch)
         THEN Goto("check_sync", Called("check_on_main_branch"))
         ELSE Raise("GitError", IF readable THEN "WrongBranch" ELSE "RepoUnavailable",
                    Called("check_on_main_branch"))
    /\ UNCHANGED << envVars, inputVars >>

\* check_up_to_date(config.project_root, config.main_branch), before the duplicate check
CheckUpToDate ==
    /\ pc = "check_sync"
    /\ \E readable \in Booleans :
         IF readable /\ UpToDate(localHead, remoteHead)
         THEN Goto("dup_check", Reached("PreconditionsChecked", Called("check_up_to_date")))
         ELSE Raise("GitError", IF readable THEN "OutOfSync" ELSE "RepoUnavailable",
                    Called("check_up_to_date"))
    /\ UNCHANGED << envVars, inputVars >>

\* a normal return from run_release, after its last message about `tag`
Return(code, kind, tag, o) ==
    /\ pc' = "done"
    /\ exit' = code
    /\ outcome' = [kind |-> kind, text |-> "", tag |-> tag]
    /\ obs' = o
    /\ UNCHANGED raised

\* DuplicateGuard without the early return: the run goes on to the prompts
DuplicateGuard_NoReturn ==
    /\ pc = "dup_check"
    /\ Goto("prompt_tag",
            Reached("DuplicateChecked",
                    [Called("is_latest_commit_released")
                       EXCEPT !.dupFound = IsHeadReleased(releases, localHead)]))
    /\ UNCHANGED << envVars, inputVars >>

\* is_latest_commit_released(config.project_root) and the early return
DuplicateGuard ==
    /\ pc = "dup_check"
    /\ \E readable \in Booleans :
         IF ~readable
         THEN Raise("GitHubError", "RepoUnavailable", Called("is_latest_commit_released"))
         ELSE LET is_released == IsHeadReleased(releases, localHead)
                  latest_release == LatestRelease(releases, localHead)
                  o == Reached("DuplicateChecked",
                               [Called("is_latest_commit_released")
                                  EXCEPT !.dupFound = is_released])
              IN  IF is_released
                  THEN Return(0, "Nothing to do", latest_release.tagName, o)
                  ELSE Goto("prompt_tag", o)
    /\ UNCHANGED << envVars, inputVars >>

\* the tag prompt and its loop
PromptTag ==
    /\ pc = "prompt_tag"
    /\ \E line \in RawTagAnswers :
         LET o == [Called("prompt_tag") EXCEPT !.tagLines = Append(@, line)]
         IN  IF prompt_user(line) # <<>>
             THEN /\ new_tag' = prompt_user(line)
                  /\ UNCHANGED emptyAnswers
                  /\ Goto("prompt_title", o)
             ELSE /\ emptyAnswers < MaxEmptyTag
                  /\ emptyAnswers' = emptyAnswers + 1
                  /\ UNCHANGED new_tag
                  /\ Goto("prompt_tag", o)
    /\ UNCHANGED << envVars, release_title, release_notes, main_branch >>

\* PromptTitle asking again while the answer is empty, as the tag prompt does
PromptTitle_Required ==
    /\ pc = "prompt_title"
    /\ \E line \in RawTitleAnswers :
         /\ release_title' = prompt_user(line)
         /\ Goto(IF prompt_user(line) = <<>> THEN "prompt_title" ELSE "prompt_notes",
                 [Called("prompt_title") EXCEPT !.titleLine = << line >>])
    /\ UNCHANGED << envVars, new_tag, release_notes, emptyAnswers, main_branch >>

\* the title prompt and its default
PromptTitle ==
    /\ pc = "prompt_title"
    /\ \E line \in RawTitleAnswers :
         /\ release_title' = IF prompt_user(line) = <<>> THEN new_tag
                             ELSE prompt_user(line)
         /\ Goto("prompt_notes",
                 [Called("prompt_title") EXCEPT !.titleLine = << line >>])
    /\ UNCHANGED << envVars, new_tag, release_notes, emptyAnswers, main_branch >>

\* PromptNotes followed at once by the publish step, check_tag_validity left out
PromptNotes_ThenPublish ==
    /\ pc = "prompt_notes"
    /\ \E line \in RawNotesAnswers :
         /\ release_notes' = IF prompt_user(line) = <<>> THEN <<>>
                             ELSE prompt_user(line)
         /\ Goto("publish",
                 Reached("InputCollected",
                         [Called("prompt_notes") EXCEPT !.notesLine = << line >>]))
    /\ UNCHANGED << envVars, new_tag, release_title, emptyAnswers, main_branch >>

\* the notes prompt and its default
PromptNotes ==
    /\ pc = "prompt_notes"
    /\ \E line \in RawNotesAnswers :
         /\ release_notes' = IF prompt_user(line) = <<>> THEN <<>>
                             ELSE prompt_user(line)
         /\ Goto("validate",
                 Reached("InputCollected",
                         [Called("prompt_notes") EXCEPT !.notesLine = << line >>]))
    /\ UNCHANGED << envVars, new_tag, release_title, emptyAnswers, main_branch >>

\* CheckTagValidity with the outcome ignored: the run goes on to publish
CheckTagValidity_Ignored ==
    /\ pc = "validate"
    /\ Goto("publish",
            Reached("Validated",
                    [Called("check_tag_validity")
                       EXCEPT !.valOutcome =
                                ValidationOutcome(new_tag, tags, localHead, remoteHead),
                              !.validated = << new_tag >>]))
    /\ UNCHANGED << envVars, inputVars >>

\* check_tag_validity(config.project_root, new_tag, config.main_branch)
CheckTagValidity ==
    /\ pc = "validate"
    /\ \E readable \in Booleans :
         LET v == ValidationOutcome(new_tag, tags, localHead, remoteHead)
             o == [Called("check_tag_validity")
                     EXCEPT !.valOutcome = IF readable THEN v ELSE "RepoUnavailable",
                            !.validated = << new_tag >>]
         IN  IF readable /\ v = "Valid"
             THEN Goto("publish", Reached("Validated", o))
             ELSE Raise("GitError", o.valOutcome, o)
    /\ UNCHANGED << envVars, inputVars >>

\* CreateGithubRelease called again when the registry refused the release
CreateGithubRelease_Retry ==
    /\ pc = "publish"
    /\ \E p \in Publish(new_tag, release_title, release_notes,
                         tags, releases, localHead, remoteHead),
          interrupted \in Booleans :
         LET o == [Called("create_github_release")
                     EXCEPT !.pubOutcome = IF interrupted THEN "interrupted" ELSE p.result,
                            !.interruptedAt = IF interrupted THEN "in_publish" ELSE @,
                            !.headAtPublish = << localHead >>,
                            !.published = << new_tag, release_title, release_notes >>,
                            !.wrote = p.wrote,
                            !.created = p.created]
         IN  /\ tags' = p.tags
             /\ releases' = p.releases
             /\ IF interrupted THEN Raise("KeyboardInterrupt", "", o)
                ELSE IF p.result = "ok" THEN Goto("post_sync", Reached("Published", o))
                ELSE IF p.result = "PublishFailed" THEN Goto("publish", o)
                ELSE Raise("GitHubError", p.result, o)
    /\ UNCHANGED << currentBranch, localHead, remoteHead, nextCommit,
                    inputVars >>

\* CreateGithubRelease with the title and the tag passed in each other's place
CreateGithubRelease_ArgsSwapped ==
    /\ pc = "publish"
    /\ \E p \in Publish(release_title, new_tag, release_notes,
                         tags, releases, localHead, remoteHead),
          interrupted \in Booleans :
         LET o == [Called("create_github_release")
                     EXCEPT !.pubOutcome = IF interrupted THEN "interrupted" ELSE p.result,
                            !.interruptedAt = IF interrupted THEN "in_publish" ELSE @,
                            !.headAtPublish = << localHead >>,
                            !.published = << release_title, new_tag, release_notes >>,
                            !.wrote = p.wrote,
                            !.created = p.created]
         IN  /\ tags' = p.tags
             /\ releases' = p.releases
             /\ IF interrupted THEN Raise("KeyboardInterrupt", "", o)
                ELSE IF p.result = "ok" THEN Goto("post_sync", Reached("Published", o))
                ELSE Raise("GitHubError", p.result, o)
    /\ UNCHANGED << currentBranch, localHead, remoteHead, nextCommit,
                    inputVars >>

\* create_github_release(config.project_root, new_tag, release_title, release_notes);
\* an interrupt may arrive while it runs
CreateGithubRelease ==
    /\ pc = "publish"
    /\ \E p \in Publish(new_tag, release_title, release_notes,
                         tags, releases, localHead, remoteHead),
          interrupted \in Booleans :
         LET o == [Called("create_github_release")
                     EXCEPT !.pubOutcome = IF interrupted THEN "interrupted" ELSE p.result,
                            !.interruptedAt = IF interrupted THEN "in_publish" ELSE @,
                            !.headAtPublish = << localHead >>,
                            !.published = << new_tag, release_title, release_notes >>,
                            !.wrote = p.wrote,
                            !.created = p.created]
         IN  /\ tags' = p.tags
             /\ releases' = p.releases
             /\ IF interrupted THEN Raise("KeyboardInterrupt", "", o)
                ELSE IF p.result = "ok" THEN Goto("post_sync", Reached("Published", o))
                ELSE Raise("GitHubError", p.result, o)
    /\ UNCHANGED << currentBranch, localHead, remoteHead, nextCommit,
                    inputVars >>

\* FinalCheckUpToDate with its result ignored
FinalCheckUpToDate_Ignored ==
    /\ pc = "post_sync"
    /\ Goto("verify",
            [Called("check_up_to_date")
               EXCEPT !.postSync = << localHead, remoteHead >>,
                      !.postSyncOutcome = IF UpToDate(localHead, remoteHead)
                                          THEN "ok" ELSE "OutOfSync"])
    /\ UNCHANGED << envVars, inputVars >>

\* check_up_to_date again, after the release was created
FinalCheckUpToDate ==
    /\ pc = "post_sync"
    /\ \E readable \in Booleans :
         LET result == IF ~readable THEN "RepoUnavailable"
                       ELSE IF UpToDate(localHead, remoteHead) THEN "ok" ELSE "OutOfSync"
             o == [Called("check_up_to_date")
                     EXCEPT !.postSync = << localHead, remoteHead >>,
                            !.postSyncOutcome = result]
         IN  IF result = "ok" THEN Goto("verify", o) ELSE Raise("GitError", result, o)
    /\ UNCHANGED << envVars, inputVars >>

\* VerifyRelease with a failed verification reported as a success
VerifyRelease_Lenient ==
    /\ pc = "verify"
    /\ Goto("report",
            Reached("PostVerified",
                    [Called("verify_release_on_latest_commit")
                       EXCEPT !.verOutcome =
                                VerificationOutcome(new_tag, releases, localHead),
                              !.verified = << new_tag >>]))
    /\ UNCHANGED << envVars, inputVars >>

\* verify_release_on_latest_commit(config.project_root, new_tag) and the final return
VerifyRelease ==
    /\ pc = "verify"
    /\ \E readable \in Booleans :
         LET v == VerificationOutcome(new_tag, releases, localHead)
             o == [Called("verify_release_on_latest_commit")
                     EXCEPT !.verOutcome = IF readable THEN v ELSE "RepoUnavailable",
                            !.verified = << new_tag >>]
         IN  IF readable /\ v = "Confirmed"
             THEN Goto("report", Reached("PostVerified", o))
             ELSE Raise("GitHubError", o.verOutcome, o)
    /\ UNCHANGED << envVars, inputVars >>

\* the last message and return 0
ReportSuccess ==
    /\ pc = "report"
    /\ Return(0, "completed successfully", new_tag, Reached("Done", obs))
    /\ UNCHANGED << envVars, inputVars >>

\* Ctrl-C at a step of the run, before the step's call has had any effect
KeyboardInterrupt ==
    /\ pc \in RunningPcs
    /\ Raise("KeyboardInterrupt", "", [obs EXCEPT !.interruptedAt = pc])
    /\ UNCHANGED << envVars, inputVars >>

\* any other exception (EOFError at a prompt, a KeyError, ...)
UnexpectedError ==
    /\ pc \in RunningPcs
    /\ Raise("Exception", "unexpected", obs)
    /\ UNCHANGED << envVars, inputVars >>

\* ------------------------------------------------- the operator between runs
Between == pc = "idle"
runVars == << pc, exit, raised, outcome, new_tag, release_title, release_notes,
              emptyAnswers, main_branch, obs >>

OperatorCheckout ==
    /\ Between
    /\ \E b \in BranchNames : b # currentBranch /\ currentBranch' = b
    /\ UNCHANGED << localHead, remoteHead, nextCommit, tags, releases, runVars >>

OperatorCommit ==
    /\ Between
    /\ nextCommit <= MaxCommit
    /\ localHead' = nextCommit
    /\ nextCommit' = nextCommit + 1
    /\ \E pushed \in Booleans : remoteHead' = IF pushed THEN nextCommit ELSE remoteHead
    /\ UNCHANGED << currentBranch, tags, releases, runVars >>

OperatorPull ==
    /\ Between
    /\ localHead # remoteHead
    /\ localHead' = remoteHead
    /\ UNCHANGED << currentBranch, remoteHead, nextCommit, tags, releases, runVars >>

\* ----------------------------------------------------- the external actor
ExternalPush ==
    /\ pc # "done"
    /\ nextCommit <= MaxCommit
    /\ remoteHead' = nextCommit
    /\ nextCommit' = nextCommit + 1
    /\ UNCHANGED << currentBranch, localHead, tags, releases, runVars >>

ExternalTag ==
    /\ pc # "done"
    /\ \E t \in TagNames \ TagNamesOf(tags), c \in 1..(nextCommit - 1) :
         tags' = tags \cup { [name |-> t, commit |-> c] }
    /\ UNCHANGED << currentBranch, localHead, remoteHead, nextCommit, releases, runVars >>

\* a release is removed from the registry; its tag stays
ExternalDeleteRelease ==
    /\ pc # "done"
    /\ \E i \in 1..Len(releases) :
         releases' = SubSeq(releases, 1, i - 1) \o SubSeq(releases, i + 1, Len(releases))
    /\ UNCHANGED << currentBranch, localHead, remoteHead, nextCommit, tags, runVars >>

\* ------------------------------------------------------------ specification
InitialRelease == [tagName |-> <<"a">>, targetCommit |-> 1, name |-> <<"a">>, body |-> <<>>]

Init ==
    /\ currentBranch = "main"
    /\ localHead = 1
    /\ remoteHead = 1
    /\ nextCommit = 2
    /\ \/ releases = <<>> /\ tags = {}
       \/ releases = << InitialRelease >> /\ tags = { [name |-> <<"a">>, commit |-> 1] }
    /\ pc = "idle"
    /\ exit = NoExit
    /\ raised = "none"
    /\ outcome = NoOutcome
    /\ new_tag = <<>>
    /\ release_title = <<>>
    /\ release_notes = <<>>
    /\ emptyAnswers = 0
    /\ main_branch = ""
    /\ obs = NoObs

\* the steps of run_release
RunNext ==
    \/ StartRun
    \/ ProcessExit
    \/ LoadConfig
    \/ BuildLatex
    \/ CheckOnMainBranch
    \/ CheckUpToDate
    \/ DuplicateGuard
    \/ PromptTag
    \/ PromptTitle
    \/ PromptNotes
    \/ CheckTagValidity
    \/ CreateGithubRelease
    \/ FinalCheckUpToDate
    \/ VerifyRelease
    \/ ReportSuccess
    \/ KeyboardInterrupt
    \/ UnexpectedError

OperatorNext ==
    \/ OperatorCheckout
    \/ OperatorCommit
    \/ OperatorPull

\* the external actor acts at any point between the steps of a run
Next ==
    \/ RunNext
    \/ OperatorNext
    \/ ExternalPush
    \/ ExternalTag
    \/ ExternalDeleteRelease

Spec == Init /\ [][Next]_vars

\* the external actor acts only while no run is in progress
ExternalPushBetweenRuns == pc = "idle" /\ ExternalPush
ExternalTagBetweenRuns == pc = "idle" /\ ExternalTag
ExternalDeleteReleaseBetweenRuns == pc = "idle" /\ ExternalDeleteRelease

NextSequential ==
    \/ RunNext
    \/ OperatorNext
    \/ ExternalPushBetweenRuns
    \/ ExternalTagBetweenRuns
    \/ ExternalDeleteReleaseBetweenRuns

SpecSequential == Init /\ [][NextSequential]_vars

\* ------------------------------------------------------------------ claims
CallsMade == { obs.calls[i] : i \in 1..Len(obs.calls) }
PromptCalls == { "prompt_tag", "prompt_title", "prompt_notes" }

\* a step of run_release (every one of them moves pc or records a call)
RunStep == << pc, obs >>' # << pc, obs >>

\* C1: when is_latest_commit_released reports that head is released, the run has
\* returned 0 and has made no mutating call: create_github_release, the prompts,
\* check_tag_validity and verify_release_on_latest_commit were not reached.
C1_DuplicateShortCircuit ==
    obs.dupFound =>
        /\ pc = "done"
        /\ exit = 0
        /\ raised = "none"
        /\ obs.wrote = {}
        /\ CallsMade \cap ( PromptCalls \cup { "check_tag_validity", "create_github_release",
                                               "verify_release_on_latest_commit" } ) = {}

C1_Witness ==
    /\ pc = "done"
    /\ obs.dupFound
    /\ IsHeadReleased(releases, localHead)
    /\ obs.calls[Len(obs.calls)] = "is_latest_commit_released"

\* C2: when check_tag_validity rejects the tag (any outcome but Valid), the run ends
\* with exit code 1 and create_github_release is not called; no step of a run other
\* than the publish step changes the remote tags or releases.
C2_NoMutationOnRejectedTag ==
    /\ [](obs.valOutcome \notin { "none", "Valid" } =>
            /\ pc = "done"
            /\ exit = 1
            /\ obs.wrote = {}
            /\ "create_github_release" \notin CallsMade)
    /\ [][(RunStep /\ pc # "publish") => UNCHANGED << tags, releases >>]_vars

C2_Witness ==
    /\ pc = "done"
    /\ obs.valOutcome \in { "MalformedName", "AlreadyExists", "NotOnBranchTip" }
    /\ exit = 1

\* C3: no commit carries more than one release.
C3_OneReleasePerCommit ==
    \A c \in 1..MaxCommit : Cardinality(ReleasesOn(releases, c)) <= 1

C3_Witness ==
    /\ pc = "done"
    /\ exit = 0
    /\ obs.pubOutcome = "ok"
    /\ Len(releases) = 2
    /\ releases[1].targetCommit # releases[2].targetCommit

\* the calls of a run in the order of the code, each tag prompt counted once
RECURSIVE Squash(_)
Squash(calls) ==
    IF Len(calls) < 2 THEN calls
    ELSE IF calls[1] = "prompt_tag" /\ calls[2] = "prompt_tag" THEN Squash(Tail(calls))
    ELSE << calls[1] >> \o Squash(Tail(calls))

IsPrefix(s, t) == Len(s) <= Len(t) /\ SubSeq(t, 1, Len(s)) = s

CallOrder ==
    << "Config", "build_latex", "check_on_main_branch", "check_up_to_date",
       "is_latest_commit_released", "prompt_tag", "prompt_title", "prompt_notes",
       "check_tag_validity", "create_github_release", "check_up_to_date",
       "verify_release_on_latest_commit" >>

StateOrder ==
    << "Init", "PreconditionsChecked", "DuplicateChecked", "InputCollected",
       "Validated", "Published", "PostVerified", "Done" >>

VisitedBeforeFailure ==
    IF obs.visited[Len(obs.visited)] = "Failed"
    THEN SubSeq(obs.visited, 1, Len(obs.visited) - 1)
    ELSE obs.visited

\* C4: the calls of a run are made in the order of the code, none left out, so that
\* create_github_release comes only after check_on_main_branch and check_up_to_date
\* passed, is_latest_commit_released said not released, tag, title and notes were
\* collected and check_tag_validity passed; the orchestrator's states are visited
\* in their order, none skipped, Failed being last when it is reached.
C4_PublishOrdering ==
    /\ IsPrefix(Squash(obs.calls), CallOrder)
    /\ IsPrefix(VisitedBeforeFailure, StateOrder)
    /\ "create_github_release" \in CallsMade =>
          /\ IsPrefix(<< "Init", "PreconditionsChecked", "DuplicateChecked",
                         "InputCollected", "Validated" >>, obs.visited)
          /\ ~obs.dupFound
          /\ new_tag # <<>>
          /\ obs.valOutcome = "Valid"
    /\ "Published" \in { obs.visited[i] : i \in 1..Len(obs.visited) }
          => obs.pubOutcome = "ok"
    /\ "Done" \in { obs.visited[i] : i \in 1..Len(obs.visited) }
          => obs.postSyncOutcome = "ok" /\ obs.verOutcome = "Confirmed"

C4_Witness ==
    /\ pc = "done"
    /\ obs.visited = StateOrder
    /\ Squash(obs.calls) = CallOrder
    /\ Len(obs.calls) > Len(CallOrder)

\* C5: after create_github_release succeeded, a failure of the second
\* check_up_to_date or a Mismatch or NotFound from verify_release_on_latest_commit
\* ends the run with exit code 1 without reaching Done, and no step of the run after
\* the publish step changes the remote tags or releases.
C5_PostconditionStrict ==
    /\ []((obs.pubOutcome = "ok"
            /\ (obs.postSyncOutcome \notin { "none", "ok" }
                \/ obs.verOutcome \in { "Mismatch", "NotFound" })) =>
            /\ pc = "done"
            /\ exit = 1
            /\ obs.visited[Len(obs.visited)] = "Failed"
            /\ Cardinality({ i \in 1..Len(obs.calls) :
                               obs.calls[i] = "create_github_release" }) = 1
            /\ obs.calls[Len(obs.calls)] # "create_github_release")
    /\ [][(obs.pubOutcome = "ok" /\ RunStep) => UNCHANGED << tags, releases >>]_vars

C5_Witness ==
    /\ pc = "done"
    /\ obs.pubOutcome = "ok"
    /\ obs.verOutcome = "Mismatch"
    /\ exit = 1
    /\ \E i \in 1..Len(releases) : releases[i].tagName = new_tag

\* the release the run created
ReleaseOfRun == obs.created[1]

\* C6: with the external actor acting between any two steps, a run that published
\* and returned 0 created a release on the head commit seen at the publish step and
\* saw the branch in sync at the second check_up_to_date; a run whose release is on
\* another commit returned 1.
C6_TargetIsHead ==
    (pc = "done" /\ obs.pubOutcome = "ok") =>
        /\ obs.created # <<>>
        /\ ReleaseOfRun.tagName = new_tag
        /\ exit = 0 =>
              /\ ReleaseOfRun.targetCommit = obs.headAtPublish[1]
              /\ obs.postSync # <<>>
              /\ obs.postSync[1] = obs.postSync[2]
        /\ ReleaseOfRun.targetCommit # obs.headAtPublish[1] => exit = 1

C6_Witness ==
    /\ pc = "done"
    /\ obs.pubOutcome = "ok"
    /\ exit = 1
    /\ ReleaseOfRun.targetCommit # obs.headAtPublish[1]
    /\ obs.postSyncOutcome = "ok"

\* C7: no two releases share a tag name.
C7_TagNamesUnique ==
    \A i, j \in 1..Len(releases) :
        releases[i].tagName = releases[j].tagName => i = j

C7_Witness ==
    /\ pc = "done"
    /\ obs.pubOutcome = "ok"
    /\ Len(releases) = 2
    /\ releases[1].tagName # releases[2].tagName
    /\ releases[2].tagName = new_tag

\* C8: a run returns 0 or 1; 1 whenever an exception ended it (a handled error, an
\* interrupt or any other exception); 0 only when the head was already released or
\* when the release was created and both final checks passed.
C8_ExitCodes ==
    /\ pc # "done" => exit = NoExit
    /\ pc = "done" =>
          /\ exit \in { 0, 1 }
          /\ raised # "none" => exit = 1
          /\ exit = 1 => raised # "none"
          /\ exit = 0 =>
                \/ obs.dupFound /\ "create_github_release" \notin CallsMade
                \/ /\ obs.pubOutcome = "ok"
                   /\ obs.postSyncOutcome = "ok"
                   /\ obs.verOutcome = "Confirmed"

C8_Witness ==
    /\ pc = "done"
    /\ exit = 1
    /\ raised \in HandledErrors
    /\ obs.calls = << "Config" >>

PreCreatePcs == RunningPcs \ { "post_sync", "verify", "report" }

\* C10: an interrupt at a step before create_github_release is called ends the run
\* with exit code 1, create_github_release is not called, and the interrupt leaves
\* the remote tags and releases as they were.
C10_InterruptBeforeMutation ==
    /\ [](obs.interruptedAt \in PreCreatePcs =>
            /\ pc = "done"
            /\ exit = 1
            /\ raised = "KeyboardInterrupt"
            /\ "create_github_release" \notin CallsMade
            /\ obs.wrote = {})
    /\ [][(obs'.interruptedAt \in PreCreatePcs /\ RunStep)
            => UNCHANGED << tags, releases >>]_vars

C10_Witness ==
    /\ pc = "done"
    /\ obs.interruptedAt = "publish"
    /\ obs.valOutcome = "Valid"
    /\ exit = 1

PostCreatePcs == { "post_sync", "verify" }

\* C11: an interrupt that arrives after create_github_release has succeeded, during
\* the final check_up_to_date or verify_release_on_latest_commit, ends the run with
\* the outcome "completed publish, verification incomplete", which differs from the
\* outcome reported for an interrupt before any mutation.
C11_InterruptAfterPublishDistinct ==
    (pc = "done" /\ obs.pubOutcome = "ok" /\ obs.interruptedAt \in PostCreatePcs) =>
        /\ outcome.kind = "completed publish, verification incomplete"
        /\ outcome.kind # "Release cancelled by user"

\* C12: when the document build fails (the Makefile is missing or make exits
\* non-zero) the run returns 1 and has called nothing after build_latex: no git
\* precondition check, no duplicate check, no prompt, no create_github_release.
C12_BuildFailureGates ==
    (obs.buildFs # <<>> /\ ~(obs.buildFs[1].hasMakefile /\ obs.buildFs[1].makeOk)) =>
        /\ pc = "done"
        /\ exit = 1
        /\ raised \in { "FileNotFoundError", "RuntimeError" }
        /\ obs.calls = << "Config", "build_latex" >>
        /\ obs.wrote = {}

C12_Witness ==
    /\ pc = "done"
    /\ exit = 1
    /\ obs.buildFs = << [hasMakefile |-> TRUE, makeOk |-> FALSE] >>
    /\ raised = "RuntimeError"

\* C13: when configuration fails (no project root, .env missing, or the LaTeX
\* directory missing) the run returns 1 and Config() is the only call it made:
\* the build, every git and registry query, every prompt and the publish step are
\* never invoked.
C13_ConfigFailureGates ==
    (obs.configFs # <<>> /\ ~(/\ obs.configFs[1].hasGit
                              /\ obs.configFs[1].hasEnv
                              /\ obs.configFs[1].hasLatexDir)) =>
        /\ pc = "done"
        /\ exit = 1
        /\ raised \in { "FileNotFoundError", "RuntimeError" }
        /\ obs.calls = << "Config" >>
        /\ obs.wrote = {}

C13_Witness ==
    /\ pc = "done"
    /\ exit = 1
    /\ obs.configFs = << [hasGit |-> TRUE, hasEnv |-> TRUE, hasLatexDir |-> FALSE] >>
    /\ raised = "FileNotFoundError"

\* a line that is empty once stripped
Blank(line) == \A i \in 1..Len(line) : IsSpace(line[i])

TimesCalled(name) == Cardinality({ i \in 1..Len(obs.calls) : obs.calls[i] = name })

IsPromptCall(name) == name \in PromptCalls

PromptsMade == SelectSeq(obs.calls, IsPromptCall)

TagAccepted == obs.tagLines # <<>> /\ ~Blank(obs.tagLines[Len(obs.tagLines)])

\* C14: the prompts are tag, title, notes in that order; the tag prompt is repeated
\* exactly while the stripped answer is empty; title and notes are each prompted
\* once; an empty title becomes the tag and empty notes become the empty string,
\* and these are the title and notes passed to create_github_release.
C14_PromptsAndDefaults ==
    /\ PromptsMade = [i \in 1..Len(obs.tagLines) |-> "prompt_tag"]
                       \o (IF obs.titleLine # <<>> THEN << "prompt_title" >> ELSE <<>>)
                       \o (IF obs.notesLine # <<>> THEN << "prompt_notes" >> ELSE <<>>)
    /\ TimesCalled("prompt_title") <= 1
    /\ TimesCalled("prompt_notes") <= 1
    /\ \A i \in 1..(Len(obs.tagLines) - 1) : Blank(obs.tagLines[i])
    /\ obs.titleLine # <<>> => TagAccepted
    /\ obs.notesLine # <<>> => obs.titleLine # <<>>
    /\ (pc = "prompt_tag" /\ obs.tagLines # <<>>) => ~TagAccepted
    /\ TagAccepted => new_tag # <<>>
    /\ (obs.titleLine # <<>> /\ Blank(obs.titleLine[1])) => release_title = new_tag
    /\ (obs.titleLine # <<>> /\ ~Blank(obs.titleLine[1])) => release_title # <<>>
    /\ (obs.notesLine # <<>> /\ Blank(obs.notesLine[1])) => release_notes = <<>>
    /\ obs.published # <<>> =>
          /\ obs.notesLine # <<>>
          /\ TimesCalled("prompt_title") = 1
          /\ TimesCalled("prompt_notes") = 1
          /\ Blank(obs.titleLine[1]) => obs.published[2] = obs.published[1]
          /\ Blank(obs.notesLine[1]) => obs.published[3] = <<>>
          /\ obs.created # <<>> =>
                /\ Blank(obs.titleLine[1]) => ReleaseOfRun.name = ReleaseOfRun.tagName
                /\ Blank(obs.notesLine[1]) => ReleaseOfRun.body = <<>>

C14_Witness ==
    /\ pc = "done"
    /\ exit = 0
    /\ Len(obs.tagLines) = 2
    /\ obs.tagLines[1] = << " " >>
    /\ obs.titleLine = << << " " >> >>
    /\ obs.notesLine = << <<>> >>
    /\ obs.created # <<>>
    /\ ReleaseOfRun.name = new_tag
    /\ ReleaseOfRun.body = <<>>

\* ------------------------------------------------------- the happy path
\* branch main and synced, head a commit with no release anywhere
HappyInit ==
    /\ currentBranch = MAIN_BRANCH_DEFAULT
    /\ localHead \in 1..MaxCommit
    /\ remoteHead = localHead
    /\ nextCommit = localHead + 1
    /\ releases = <<>>
    /\ \/ tags = {}
       \/ \E t \in TagNames, c \in 1..localHead : tags = { [name |-> t, commit |-> c] }
    /\ pc = "idle"
    /\ exit = NoExit
    /\ raised = "none"
    /\ outcome = NoOutcome
    /\ new_tag = <<>>
    /\ release_title = <<>>
    /\ release_notes = <<>>
    /\ emptyAnswers = 0
    /\ main_branch = ""
    /\ obs = NoObs

\* no call of the step raises and no interrupt arrives
CallsSucceed == raised' = "none"

\* the tag the operator ends up with is a valid new tag
OperatorEntersValidTag ==
    pc = "prompt_tag" =>
        \/ pc' = "prompt_tag"
        \/ ValidationOutcome(new_tag', tags, localHead, remoteHead) = "Valid"

\* the operator leaves title and notes empty
EmptyTitleAndNotes ==
    /\ pc = "prompt_title" => Blank(obs'.titleLine[1])
    /\ pc = "prompt_notes" => Blank(obs'.notesLine[1])

HappyScenario == CallsSucceed /\ OperatorEntersValidTag /\ EmptyTitleAndNotes

\* one run of run_release, nobody else acting
HappyNext ==
    \/ StartRun /\ HappyScenario
    \/ LoadConfig /\ HappyScenario
    \/ BuildLatex /\ HappyScenario
    \/ CheckOnMainBranch /\ HappyScenario
    \/ CheckUpToDate /\ HappyScenario
    \/ DuplicateGuard /\ HappyScenario
    \/ PromptTag /\ HappyScenario
    \/ PromptTitle /\ HappyScenario
    \/ PromptNotes /\ HappyScenario
    \/ CheckTagValidity /\ HappyScenario
    \/ CreateGithubRelease /\ HappyScenario
    \/ FinalCheckUpToDate /\ HappyScenario
    \/ VerifyRelease /\ HappyScenario
    \/ ReportSuccess /\ HappyScenario

\* run_release runs its statements one after the other: while a step can be taken
\* without a failure, one is taken
SpecHappy == HappyInit /\ [][HappyNext]_vars /\ WF_vars(HappyNext)

\* C15: on the happy path (configuration and build succeed, branch main and synced,
\* head H without any release, a valid new tag with empty title and notes, nobody
\* else acting) the run reaches its end, and at its end it has returned 0 through
\* every state in order, exactly one release exists, with the entered tag as tag and
\* title and empty notes, targeting H, verification confirmed it and the second
\* sync check found the branch in sync.
C15_HappyPath ==
    /\ <>(pc = "done")
    /\ [](pc = "done" =>
            /\ exit = 0
            /\ raised = "none"
            /\ obs.visited = StateOrder
            /\ TimesCalled("create_github_release") = 1
            /\ releases = << [tagName |-> new_tag, targetCommit |-> localHead,
                              name |-> new_tag, body |-> <<>>] >>
            /\ obs.created = releases
            /\ obs.verOutcome = "Confirmed"
            /\ obs.postSyncOutcome = "ok"
            /\ localHead = remoteHead)

C15_Witness ==
    /\ pc = "done"
    /\ exit = 0
    /\ Len(releases) = 1
    /\ releases[1].tagName = << "b" >>
    /\ releases[1].targetCommit = 2
    /\ localHead = 2
    /\ [name |-> << "a" >>, commit |-> 1] \in tags

GatingChecks == { "check_on_main_branch", "check_up_to_date",
                  "is_latest_commit_released", "check_tag_validity" }

IndexOf(name) == CHOOSE i \in 1..Len(obs.calls) : obs.calls[i] = name

CallsUpToCreate == SubSeq(obs.calls, 1, IndexOf("create_github_release"))

\* C16 as stated: when create_github_release is called, each of the four checks that
\* gate it (on-branch, synced, head not yet released, tag validity) was evaluated
\* after the last prompt had been answered.
C16_AllChecksAfterPrompts ==
    obs.published # <<>> =>
        \A check \in GatingChecks :
            \E i \in 1..Len(obs.calls) :
                /\ obs.calls[i] = check
                /\ IndexOf("prompt_notes") < i
                /\ i < IndexOf("create_github_release")

\* C16: of the checks that gate the publish step, check_tag_validity is evaluated
\* after the prompts, as the call immediately before create_github_release, on the
\* state as it is then; check_on_main_branch, check_up_to_date and
\* is_latest_commit_released are evaluated before the prompts and not again before
\* the publish step. A push to the branch or the creation of the proposed tag by
\* another actor while the run waits for input is found by check_tag_validity, and
\* the run ends with exit code 1 without having called create_github_release.
C16_ValidityReadBeforePublish ==
    /\ [](obs.published # <<>> =>
            Squash(CallsUpToCreate) = SubSeq(CallOrder, 1, 10))
    /\ [][(pc = "validate" /\ pc' = "publish") =>
            /\ localHead = remoteHead
            /\ new_tag \notin TagNamesOf(tags)
            /\ UNCHANGED << localHead, remoteHead, tags >>]_vars
    /\ [](obs.valOutcome \in { "NotOnBranchTip", "AlreadyExists" } =>
            /\ pc = "done"
            /\ exit = 1
            /\ obs.published = <<>>
            /\ obs.wrote = {})

\* a push arrived after the first check_up_to_date had passed, and the run stopped
\* at check_tag_validity
C16_Witness ==
    /\ pc = "done"
    /\ exit = 1
    /\ "prompt_notes" \in CallsMade
    /\ obs.valOutcome = "NotOnBranchTip"
    /\ localHead # remoteHead
    /\ obs.published = <<>>

\* C17: create_github_release is called at most once in a run and is the only step
\* of the run that changes tags or releases; a failure of any step ends the run at
\* once with exit code 1: the failing call is the last call of the run, no call is
\* made twice (but the tag prompt of the loop and the check_up_to_date that follows
\* a successful publish), and nothing is called after the failure.
C17_SingleMutationNoRetry ==
    /\ [](/\ TimesCalled("create_github_release") <= 1
          /\ \A name \in CallsMade \ { "prompt_tag", "check_up_to_date" } :
                TimesCalled(name) = 1
          /\ TimesCalled("check_up_to_date") <= 2
          /\ TimesCalled("check_up_to_date") = 2 => obs.pubOutcome = "ok"
          /\ raised # "none" =>
                /\ pc = "done"
                /\ exit = 1
                /\ obs.visited[Len(obs.visited)] = "Failed")
    /\ [][(RunStep /\ pc # "publish") => UNCHANGED << tags, releases >>]_vars
    /\ [][(RunStep /\ raised' # "none") =>
            /\ raised = "none"
            /\ pc' = "done"
            /\ Len(obs'.calls) <= Len(obs.calls) + 1]_vars
    /\ [][(RunStep /\ pc = "done") => pc' = "idle" /\ obs'.calls = <<>>]_vars

\* the registry refused the release: one call of create_github_release, then the end
C17_Witness ==
    /\ pc = "done"
    /\ exit = 1
    /\ obs.pubOutcome = "PublishFailed"
    /\ TimesCalled("create_github_release") = 1
    /\ obs.calls[Len(obs.calls)] = "create_github_release"

CollectedTag == Strip(obs.tagLines[Len(obs.tagLines)])

CollectedTitle ==
    IF Blank(obs.titleLine[1]) THEN CollectedTag ELSE Strip(obs.titleLine[1])

CollectedNotes == Strip(obs.notesLine[1])

AfterInputPcs == { "validate", "publish", "post_sync", "verify", "report" }

\* C18: the tag passed to check_tag_validity is the non-empty tag collected at the
\* tag prompt; create_github_release receives that same tag with the title and the
\* notes collected (defaults applied); verify_release_on_latest_commit receives that
\* same tag; and from validation on no step changes tag, title or notes.
C18_SameTagThroughout ==
    /\ [](/\ obs.validated # <<>> =>
                /\ obs.validated[1] = CollectedTag
                /\ obs.validated[1] # <<>>
          /\ obs.published # <<>> =>
                obs.published = << obs.validated[1], CollectedTitle, CollectedNotes >>
          /\ obs.verified # <<>> =>
                /\ obs.published # <<>>
                /\ obs.verified[1] = obs.published[1])
    /\ [][(pc \in AfterInputPcs) =>
            UNCHANGED << new_tag, release_title, release_notes >>]_vars

\* a run that asked twice for the tag, was given a title of its own, and got as far
\* as the verification
C18_Witness ==
    /\ obs.verified = << << "b" >> >>
    /\ obs.published = << << "b" >>, << "t" >>, << "n" >> >>
    /\ obs.tagLines = << <<>>, << "b", " " >> >>
    /\ obs.titleLine = << << "t" >> >>

\* ------------------------------------------------------------ termination
\* the statements of run_release other than the tag prompt: each call returns or raises
ProgramStep ==
    \/ LoadConfig
    \/ BuildLatex
    \/ CheckOnMainBranch
    \/ CheckUpToDate
    \/ DuplicateGuard
    \/ PromptTitle
    \/ PromptNotes
    \/ CheckTagValidity
    \/ CreateGithubRelease
    \/ FinalCheckUpToDate
    \/ VerifyRelease
    \/ ReportSuccess

\* the operator gives a non-empty answer at the tag prompt
TagAnswered == PromptTag /\ pc' # "prompt_tag"

\* every call returns or raises, and the operator eventually answers the tag prompt
\* with a non-empty tag; nothing is assumed of interrupts, of when a run is started
\* or of what happens to the repository between runs
SpecFair ==
    Init /\ [][NextSequential]_vars /\ WF_vars(ProgramStep) /\ WF_vars(TagAnswered)

PcOrder ==
    << "config", "build", "check_branch", "check_sync", "dup_check", "prompt_tag",
       "prompt_title", "prompt_notes", "validate", "publish", "post_sync", "verify",
       "report", "done" >>

Rank(p) == CHOOSE i \in 1..Len(PcOrder) : PcOrder[i] = p

\* C19: a run that has started eventually ends with an exit code (0 or 1), given
\* that every call returns or raises and that the operator eventually answers the
\* tag prompt with a non-empty tag; and the tag prompt is the only loop: every step
\* of a run moves forward in the order of the code, but an empty answer at the tag
\* prompt, which asks again.
C19_Termination ==
    /\ (pc \in RunningPcs) ~> (pc = "done" /\ exit \in { 0, 1 })
    /\ [][(RunStep /\ pc \in RunningPcs) =>
            \/ Rank(pc') > Rank(pc)
            \/ /\ pc = "prompt_tag"
               /\ pc' = "prompt_tag"
               /\ Blank(obs'.tagLines[Len(obs'.tagLines)])]_vars

\* a run that ended after the tag prompt had asked a second time
C19_Witness ==
    /\ pc = "done"
    /\ exit \in { 0, 1 }
    /\ TimesCalled("prompt_tag") = 2
    /\ "prompt_title" \in CallsMade

====
